---- MODULE Spec2Model ----
(***************************************************************************)
(* A model of the Toolbelt catalog tooling:                                *)
(*   - ToolsFileManager (toolbelt/tools_file.py): the catalog store with   *)
(*     its change detection, sort() and dedupe();                          *)
(*   - ReadmeTableManager (toolbelt/readme_file.py): rendering of the      *)
(*     catalog and the marker-bounded replacement in the README.           *)
(* Text is modelled as a sequence of one-character strings.  A record of   *)
(* the catalog carries the keys name, description, urls, tags and notes    *)
(* (the persisted shape); urls is a list of [name, url] links.             *)
(***************************************************************************)
EXTENDS Integers, Sequences, FiniteSets, TLC

VARIABLES
    file,       \* content of the catalog file (tools.json): a list of records
    loaded,     \* self.data is not None
    data,       \* self.data (<<>> while not loaded)
    original,   \* self._original_data (<<>> while it is None)
    aliased,    \* self._original_data is the very list object self.data
    opened,     \* self._file_opened
    scope,      \* the caller is inside "with manager:" (between __enter__ and __exit__)
    asLoaded,   \* <<the records last loaded from the catalog file>>, <<>> before any load
    readme,     \* content of the README file
    op,         \* name of the last operation
    arg,        \* arguments of the last operation
    prev,       \* the list the last sort(), dedupe() or scope exit started from
                \* (else <<>>)
    err,        \* the exception the last operation raised ([kind |-> "none"] if none)
    wrote,      \* the last operation wrote its target file
    out         \* value returned by the last operation (text operations)

vars == <<file, loaded, data, original, aliased, opened, scope, asLoaded,
          readme, op, arg, prev, err, wrote, out>>

-----------------------------------------------------------------------------
(* Bounds of the model *)

\* records in a catalog given to dedupe() on its own
MaxRecs == 3

\* records in a catalog of the store
MaxStoreRecs == 2

\* pieces (a marker or filler text) of a document given to
\* replace_marker_section(), and characters of its new section
MaxDocPieces == 3
MaxSectionLen == 3

\* pieces of a README before update_readme_with_table(), and records rendered
MaxReadmePieces == 2
MaxReadmeTools == 2

\* tags of a record given to migrate_tool()
MaxTags == 3

-----------------------------------------------------------------------------
(* Sequences and text *)

Range(s) == {s[i] : i \in 1..Len(s)}

SeqsUpTo(S, n) == UNION {[1..k -> S] : k \in 0..n}

\* every list holding exactly the elements of S, each once: what list(set)
\* may return, the iteration order of a set of strings depending on the
\* interpreter's hash seed
Perms(S) == {s \in [1..Cardinality(S) -> S] : Range(s) = S}

RECURSIVE Reverse(_)
Reverse(s) == IF s = <<>> THEN <<>> ELSE Append(Reverse(Tail(s)), Head(s))

UpperChars ==
    <<"A","B","C","D","E","F","G","H","I","J","K","L","M",
      "N","O","P","Q","R","S","T","U","V","W","X","Y","Z">>

LowerChars ==
    <<"a","b","c","d","e","f","g","h","i","j","k","l","m",
      "n","o","p","q","r","s","t","u","v","w","x","y","z">>

\* the lower-case letter of each upper-case letter
LowerOf == [c \in Range(UpperChars) |->
              LowerChars[CHOOSE i \in 1..26 : UpperChars[i] = c]]

LowerSet == Range(LowerChars)

IsUpperChar(c) == c \in DOMAIN LowerOf
IsLowerChar(c) == c \in LowerSet

LowerChar(c) == IF IsUpperChar(c) THEN LowerOf[c] ELSE c

\* str.lower()
Lower(s) == [i \in 1..Len(s) |-> LowerChar(s[i])]

\* str.islower(): no cased character is upper case and at least one cased
\* character is present
IsLower(s) ==
    /\ \A i \in 1..Len(s) : ~IsUpperChar(s[i])
    /\ \E i \in 1..Len(s) : IsLowerChar(s[i])

-----------------------------------------------------------------------------
(* ToolsFileManager.dedupe *)

NameKeyCaseSensitive(name) == name

\* name_key = name.lower()
NameKey(name) == Lower(name)

\* copy.deepcopy(obj): an equal value that shares nothing with obj
DeepCopy(obj) == obj

\* m["description"] = desc1 if len(desc1) >= len(desc2) else desc2
MergeDescription(m, obj) ==
    IF Len(m.description) >= Len(obj.description)
    THEN m.description ELSE obj.description

\* the name of the accumulator after the merge; m is the accumulator whose
\* description has already been replaced by the merged description
MergeName(m, obj) ==
    LET current_name == m.name
        new_name == obj.name
    IN  IF IsLower(current_name) /\ ~IsLower(new_name) THEN new_name
        ELSE IF ~IsLower(current_name) /\ IsLower(new_name) THEN current_name
        ELSE IF Len(obj.description) > Len(m.description) THEN new_name
        ELSE current_name

MergeTagsDropAccumulator(m, obj) == Range(obj.tags)

\* set(m.get("tags", [])) | set(obj.get("tags", []))
MergeTags(m, obj) == Range(m.tags) \cup Range(obj.tags)

\* set(m.get("notes", [])) | set(obj.get("notes", []))
MergeNotes(m, obj) == Range(m.notes) \cup Range(obj.notes)

\* {tuple(sorted(x.items())) for x in m urls} | {... for x in obj urls}
MergeUrls(m, obj) == Range(m.urls) \cup Range(obj.urls)

\* the else branch of the loop body: every accumulator the merge of obj into
\* m can leave (one per iteration order of the three sets)
MergeOutcomes(m, obj) ==
    LET m1 == [m EXCEPT !.description = MergeDescription(m, obj)]
    IN  { [m1 EXCEPT !.urls = u, !.tags = t, !.notes = n,
                     !.name = MergeName(m1, obj)] :
            u \in Perms(MergeUrls(m, obj)),
            t \in Perms(MergeTags(m, obj)),
            n \in Perms(MergeNotes(m, obj)) }

\* position of name_key in the insertion-ordered dict, 0 if absent
KeyPos(merged, k) ==
    IF \E i \in 1..Len(merged) : merged[i].key = k
    THEN CHOOSE i \in 1..Len(merged) : merged[i].key = k
    ELSE 0

\* one iteration of "for obj in self.data": the dicts it can leave
DedupeStep(merged, obj) ==
    LET name_key == NameKey(obj.name)
        pos == KeyPos(merged, name_key)
    IN  IF pos = 0
        THEN {Append(merged, [key |-> name_key, val |-> DeepCopy(obj)])}
        ELSE {[merged EXCEPT ![pos].val = mm] :
                mm \in MergeOutcomes(merged[pos].val, obj)}

RECURSIVE DedupeLoop(_, _, _)
DedupeLoop(records, i, ms) ==
    IF i > Len(records) THEN ms
    ELSE DedupeLoop(records, i + 1,
                    UNION {DedupeStep(m, records[i]) : m \in ms})

MergedValuesReversed(merged) == Reverse([i \in 1..Len(merged) |-> merged[i].val])

\* list(merged.values()): the values in insertion order of their keys
MergedValues(merged) == [i \in 1..Len(merged) |-> merged[i].val]

\* every list dedupe() can leave in self.data, given the list it starts from
DedupeOutcomes(records) ==
    {MergedValues(m) : m \in DedupeLoop(records, 1, {<<>>})}

-----------------------------------------------------------------------------
(* The catalog records of the model *)

Names == { <<"a","b">>, <<"A","b">>, <<"A","B">>, <<"C">> }

Cli == <<"c","l","i">>
Http == <<"h","t","t","p">>
Note == <<"n","1">>

HomeLink == [name |-> <<"h","o","m","e">>, url |-> <<"u","1">>]
DocsLink == [name |-> <<"d","o","c","s">>, url |-> <<"u","1">>]

\* what a record holds beside its name
Contents ==
    { [description |-> <<"x">>, urls |-> <<HomeLink>>,
       tags |-> <<Cli>>, notes |-> <<>>],
      [description |-> <<"y","y">>, urls |-> <<DocsLink>>,
       tags |-> <<Http, Cli>>, notes |-> <<Note>>],
      [description |-> <<"z">>, urls |-> <<>>,
       tags |-> <<Cli, Cli>>, notes |-> <<Note, Note>>] }

Tools ==
    { [name |-> n, description |-> c.description, urls |-> c.urls,
       tags |-> c.tags, notes |-> c.notes] : n \in Names, c \in Contents }

\* the records of the store's catalogs
StoreTools ==
    {t \in Tools : t.description = <<"x">> /\ t.name \in {<<"a","b">>, <<"C">>}}

SortKeys == {"name", "description"}

SortOrders == { <<"a","s","c">>, <<"D","e","s","c">>, <<"u","p">> }

NoErr == [kind |-> "none"]
NoArg == [none |-> TRUE]

-----------------------------------------------------------------------------
(* ToolsFileManager: sort *)

\* the characters of the model in code point order
CodeOrder ==
    <<"0","1","2","3","4","5","6","7","8","9">> \o UpperChars \o LowerChars

Ord(c) == CHOOSE i \in 1..Len(CodeOrder) : CodeOrder[i] = c

\* a < b for str
TextLess(a, b) ==
    \E k \in 1..(Len(b)) :
        /\ \A i \in 1..(k - 1) : i <= Len(a) /\ a[i] = b[i]
        /\ \/ k = Len(a) + 1
           \/ k <= Len(a) /\ Ord(a[k]) < Ord(b[k])

\* key_funcs["name"]: x.get("name", "").lower()
SortKey(x) == Lower(x.name)

\* list.sort(key=..., reverse=...): stable, also when reversed
Sorted(records, reverse) ==
    LET n == Len(records)
        before(i, j) ==
            \/ IF reverse
               THEN TextLess(SortKey(records[j]), SortKey(records[i]))
               ELSE TextLess(SortKey(records[i]), SortKey(records[j]))
            \/ SortKey(records[i]) = SortKey(records[j]) /\ i < j
        rank(i) == 1 + Cardinality({j \in 1..n : before(j, i)})
    IN  [r \in 1..n |-> records[CHOOSE i \in 1..n : rank(i) = r]]

Asc == <<"a","s","c">>
Desc == <<"d","e","s","c">>

SortOrderCaseSensitive(sort_order) == sort_order

\* sort_order = sort_order.lower()
SortOrderNorm(sort_order) == Lower(sort_order)

\* the exception sort() raises for its arguments
SortError(sort_key, sort_order) ==
    IF sort_key # "name" THEN [kind |-> "unsupported_key"]
    ELSE IF SortOrderNorm(sort_order) \notin {Asc, Desc}
         THEN [kind |-> "invalid_order"]
         ELSE NoErr

-----------------------------------------------------------------------------
(* ToolsFileManager: the operations *)

\* the last operation: its name, arguments, the list it started from (sort,
\* dedupe and the scope's exit), the exception it raised and whether it wrote
\* the catalog file
Did(name, a, p, e, w) ==
    /\ op' = name
    /\ arg' = a
    /\ prev' = p
    /\ err' = e
    /\ wrote' = w
    /\ out' = <<>>
    /\ readme' = readme

\* self.data after read() (sort() and dedupe() call it when self.data is None)
DataAfterRead == IF loaded THEN data ELSE file

\* read(): loads the file unless self.data is set
LazyRead ==
    /\ loaded' = TRUE
    /\ opened' = IF loaded THEN opened ELSE TRUE
    /\ asLoaded' = IF loaded THEN asLoaded ELSE <<file>>

\* self._original_data after read()
OriginalAfterRead == IF loaded THEN original ELSE DeepCopy(file)

Read ==
    /\ LazyRead
    /\ data' = DataAfterRead
    /\ original' = OriginalAfterRead
    /\ aliased' = IF loaded THEN aliased ELSE FALSE
    /\ Did("read", NoArg, <<>>, NoErr, FALSE)
    /\ UNCHANGED <<file, scope>>

DataChangedAlways(d) == TRUE

\* _data_changed(), d being self.data: self.data != self._original_data
\* (self._original_data is None until something is loaded or written)
DataChanged(d) == ~loaded \/ d # original

\* _write(), d being self.data and same telling whether d is the very list
\* that self._original_data is bound to
WriteBack(d, same) ==
    IF DataChanged(d)
    THEN /\ file' = d
         /\ original' = DeepCopy(d)
         /\ aliased' = FALSE
    ELSE /\ file' = file
         /\ original' = original
         /\ aliased' = same

Save ==
    /\ IF loaded
       THEN /\ WriteBack(data, aliased)
            /\ Did("save", NoArg, <<>>, NoErr, DataChanged(data))
       ELSE /\ UNCHANGED <<file, original, aliased>>
            /\ Did("save", NoArg, <<>>, NoErr, FALSE)
    /\ UNCHANGED <<loaded, data, opened, scope, asLoaded>>

\* write(data): the list the caller passes becomes self.data; it is a list
\* of the caller's or, when it holds what self.data holds, possibly self.data
\* itself
Write ==
    \E d \in SeqsUpTo(StoreTools, MaxStoreRecs) :
        \E same \in (IF loaded /\ aliased /\ d = data THEN BOOLEAN
                     ELSE {FALSE}) :
            /\ data' = d
            /\ loaded' = TRUE
            /\ WriteBack(d, same)
            /\ Did("write", NoArg, <<>>, NoErr, DataChanged(d))
            /\ UNCHANGED <<opened, scope, asLoaded>>

Close ==
    /\ IF opened
       THEN /\ WriteBack(data, aliased)
            /\ Did("close", NoArg, <<>>, NoErr, DataChanged(data))
       ELSE /\ UNCHANGED <<file, original, aliased>>
            /\ Did("close", NoArg, <<>>, NoErr, FALSE)
    /\ opened' = FALSE
    /\ UNCHANGED <<loaded, data, scope, asLoaded>>

\* sort(sort_key, sort_order): the list is sorted in place, so a snapshot
\* that is the same list object changes with it
Sort ==
    \E sort_key \in SortKeys, sort_order \in SortOrders :
        LET e == SortError(sort_key, sort_order)
            d == IF e = NoErr
                 THEN Sorted(DataAfterRead, SortOrderNorm(sort_order) = Desc)
                 ELSE DataAfterRead
        IN  /\ LazyRead
            /\ data' = d
            /\ IF loaded /\ aliased
               THEN original' = d /\ aliased' = TRUE
               ELSE original' = OriginalAfterRead /\ aliased' = FALSE
            /\ Did("sort", [sort_key |-> sort_key, sort_order |-> sort_order],
                   DataAfterRead, e, FALSE)
            /\ UNCHANGED <<file, scope>>

\* dedupe(): self.data becomes a new list
Dedupe ==
    /\ LazyRead
    /\ \E d \in DedupeOutcomes(DataAfterRead) : data' = d
    /\ original' = OriginalAfterRead
    /\ aliased' = FALSE
    /\ Did("dedupe", NoArg, DataAfterRead, NoErr, FALSE)
    /\ UNCHANGED <<file, scope>>

\* __enter__
Enter ==
    /\ ~scope
    /\ scope' = TRUE
    /\ data' = file
    /\ loaded' = TRUE
    /\ original' = DeepCopy(file)
    /\ aliased' = FALSE
    /\ opened' = TRUE
    /\ asLoaded' = <<file>>
    /\ Did("enter", NoArg, <<>>, NoErr, FALSE)
    /\ UNCHANGED file

\* __exit__(None, None, None): the block ended normally
ExitNormal ==
    /\ scope
    /\ scope' = FALSE
    /\ WriteBack(data, aliased)
    /\ opened' = FALSE
    /\ Did("exit", [exc |-> FALSE], data, NoErr, DataChanged(data))
    /\ UNCHANGED <<loaded, data, asLoaded>>

ExitExceptionKeepsData ==
    /\ scope
    /\ scope' = FALSE
    /\ opened' = FALSE
    /\ Did("exit", [exc |-> TRUE], data, NoErr, FALSE)
    /\ UNCHANGED <<file, loaded, data, original, aliased, asLoaded>>

\* __exit__(exc_type, exc_val, exc_tb): the block raised;
\* self.data = self._original_data binds both names to one list
ExitException ==
    /\ scope
    /\ scope' = FALSE
    /\ data' = original
    /\ aliased' = TRUE
    /\ opened' = FALSE
    /\ Did("exit", [exc |-> TRUE], data, NoErr, FALSE)
    /\ UNCHANGED <<file, loaded, original, asLoaded>>

InitStore ==
    /\ file \in SeqsUpTo(StoreTools, MaxStoreRecs)
    /\ loaded = FALSE
    /\ data = <<>>
    /\ original = <<>>
    /\ aliased = FALSE
    /\ opened = FALSE
    /\ scope = FALSE
    /\ asLoaded = <<>>
    /\ readme = <<>>
    /\ op = "init"
    /\ arg = NoArg
    /\ prev = <<>>
    /\ err = NoErr
    /\ wrote = FALSE
    /\ out = <<>>

NextStore ==
    \/ Read
    \/ Save
    \/ Write
    \/ Close
    \/ Sort
    \/ Dedupe
    \/ Enter
    \/ ExitNormal
    \/ ExitException

SpecStore == InitStore /\ [][NextStore]_vars

-----------------------------------------------------------------------------
(* ReadmeTableManager.replace_marker_section *)

\* MARKER_START_STR
MarkerStart ==
    <<"<","!","-","-"," ","M","A","R","K","E","R","-","T","O","O","L","S",
      ":","S","T","A","R","T"," ","-","-",">">>

\* MARKER_END_STR
MarkerEnd ==
    <<"<","!","-","-"," ","M","A","R","K","E","R","-","T","O","O","L","S",
      ":","E","N","D"," ","-","-",">">>

\* the characters with code points 32..126, in code point order (the grave
\* accent, which a string of this notation cannot hold, written chr(96))
Printable ==
    <<" ","!","\"","#","$","%","&","'","(",")","*","+",",","-",".","/","0",
      "1","2","3","4","5","6","7","8","9",":",";","<","=",">","?","@","A",
      "B","C","D","E","F","G","H","I","J","K","L","M","N","O","P","Q","R",
      "S","T","U","V","W","X","Y","Z","[","\\","]","^","_","chr(96)","a","b","c",
      "d","e","f","g","h","i","j","k","l","m","n","o","p","q","r","s","t",
      "u","v","w","x","y","z","{","|","}","~">>

\* chr(n); the grave accent and the characters outside 32..126 other than
\* \t \n \f \r are written chr(n)
Chr(n) ==
    IF n >= 32 /\ n <= 126 THEN Printable[n - 31]
    ELSE IF n = 9 THEN "\t"
    ELSE IF n = 10 THEN "\n"
    ELSE IF n = 12 THEN "\f"
    ELSE IF n = 13 THEN "\r"
    ELSE "chr(" \o ToString(n) \o ")"

Digits == <<"0","1","2","3","4","5","6","7","8","9">>

IsDigit(c) == \E i \in 1..10 : Digits[i] = c
IsOctDigit(c) == \E i \in 1..8 : Digits[i] = c
DigitVal(c) == (CHOOSE i \in 1..10 : Digits[i] = c) - 1

IsAsciiLetter(c) == IsUpperChar(c) \/ IsLowerChar(c)

\* text[i..] starts with pat
MatchAt(text, pat, i) ==
    /\ i + Len(pat) - 1 <= Len(text)
    /\ \A k \in 1..Len(pat) : text[i + k - 1] = pat[k]

\* the positions at which pat occurs in text
Occurrences(text, pat) == {i \in 1..Len(text) : MatchAt(text, pat, i)}

SetMin(S) == CHOOSE x \in S : \A y \in S : x <= y
SetMax(S) == CHOOSE x \in S : \A y \in S : x >= y

\* a search that asks for both markers but not for their order
SearchAnyOrder(content) ==
    LET starts == Occurrences(content, MarkerStart)
        ends == Occurrences(content, MarkerEnd)
    IN  IF starts = {} \/ ends = {} THEN [found |-> FALSE]
        ELSE [found |-> TRUE, start |-> SetMin(starts), end |-> SetMax(ends)]

\* pattern.search(content) for (START)(.*)(END) with re.DOTALL: the leftmost
\* start marker that an end marker follows; the greedy .* runs to the last
\* end marker of the text
Search(content) ==
    LET starts == Occurrences(content, MarkerStart)
        ends == Occurrences(content, MarkerEnd)
        cands == {i \in starts : \E j \in ends : j >= i + Len(MarkerStart)}
    IN  IF cands = {} THEN [found |-> FALSE]
        ELSE LET i == SetMin(cands)
             IN  [found |-> TRUE, start |-> i,
                  end |-> SetMax({j \in ends : j >= i + Len(MarkerStart)})]

\* the characters the replacement template's escapes \a \b \f \n \r \t \v \\
\* stand for
EscapeOf(c) ==
    CASE c = "a" -> Chr(7)
      [] c = "b" -> Chr(8)
      [] c = "f" -> "\f"
      [] c = "n" -> "\n"
      [] c = "r" -> "\r"
      [] c = "t" -> "\t"
      [] c = "v" -> Chr(11)
      [] c = "\\" -> "\\"

IsEscape(c) == c \in {"a", "b", "f", "n", "r", "t", "v", "\\"}

TemplateError == [ok |-> FALSE, text |-> <<>>]

RECURSIVE DecimalVal(_)
DecimalVal(ds) ==
    IF ds = <<>> THEN 0
    ELSE 10 * DecimalVal(SubSeq(ds, 1, Len(ds) - 1)) + DigitVal(ds[Len(ds)])

\* re's expansion of a replacement template t from position i on, g being
\* the groups 0..3 of the match (g[k + 1] is group k), acc the text so far
RECURSIVE Expand(_, _, _, _)
Expand(t, i, g, acc) ==
    IF i > Len(t) THEN [ok |-> TRUE, text |-> acc]
    ELSE IF t[i] # "\\"
    THEN \* a run of literal characters, up to the next backslash
         LET bs == {k \in i..Len(t) : t[k] = "\\"}
             j == IF bs = {} THEN Len(t) + 1 ELSE SetMin(bs)
         IN  Expand(t, j, g, acc \o SubSeq(t, i, j - 1))
    ELSE IF i = Len(t) THEN TemplateError
    ELSE LET c == t[i + 1]
             has(k) == i + k <= Len(t)
         IN  IF c = "g"
             THEN IF ~(has(2) /\ t[i + 2] = "<") THEN TemplateError
                  ELSE LET closes == {k \in (i + 3)..Len(t) : t[k] = ">"}
                       IN  IF closes = {} THEN TemplateError
                           ELSE LET k == SetMin(closes)
                                    name == SubSeq(t, i + 3, k - 1)
                                IN  IF name = <<>>
                                       \/ \E x \in 1..Len(name) : ~IsDigit(name[x])
                                       \/ DecimalVal(name) > 3
                                    THEN TemplateError
                                    ELSE Expand(t, k + 1, g,
                                                acc \o g[DecimalVal(name) + 1])
             ELSE IF c = "0"
             THEN IF has(2) /\ IsOctDigit(t[i + 2])
                  THEN IF has(3) /\ IsOctDigit(t[i + 3])
                       THEN Expand(t, i + 4, g,
                                Append(acc, Chr((8 * DigitVal(t[i + 2])
                                                 + DigitVal(t[i + 3])) % 256)))
                       ELSE Expand(t, i + 3, g,
                                   Append(acc, Chr(DigitVal(t[i + 2]))))
                  ELSE Expand(t, i + 2, g, Append(acc, Chr(0)))
             ELSE IF IsDigit(c)
             THEN IF has(2) /\ IsDigit(t[i + 2])
                  THEN IF IsOctDigit(c) /\ IsOctDigit(t[i + 2])
                          /\ has(3) /\ IsOctDigit(t[i + 3])
                       THEN LET v == 64 * DigitVal(c) + 8 * DigitVal(t[i + 2])
                                        + DigitVal(t[i + 3])
                            IN  IF v > 255 THEN TemplateError
                                ELSE Expand(t, i + 4, g, Append(acc, Chr(v)))
                       ELSE TemplateError  \* group 10..99 of a pattern with 3
                  ELSE IF DigitVal(c) > 3 THEN TemplateError
                       ELSE Expand(t, i + 2, g, acc \o g[DigitVal(c) + 1])
             ELSE IF IsEscape(c) THEN Expand(t, i + 2, g, Append(acc, EscapeOf(c)))
             ELSE IF IsAsciiLetter(c) THEN TemplateError
             ELSE Expand(t, i + 2, g, acc \o <<"\\", c>>)

\* f"\\1\n\n{new_section}\n\n\\3"
Template(new_section) ==
    <<"\\", "1", "\n", "\n">> \o new_section \o <<"\n", "\n", "\\", "3">>

MarkersNotFound == [kind |-> "markers_not_found"]
ReError == [kind |-> "re_error"]

\* replace_marker_section(content, new_section): the exception raised and
\* the text returned
ReplaceMarkerSection(content, new_section) ==
    LET m == Search(content)
    IN  IF ~m.found THEN [err |-> MarkersNotFound, text |-> <<>>]
        ELSE LET stop == m.end + Len(MarkerEnd)
                 g == << SubSeq(content, m.start, stop - 1),
                         MarkerStart,
                         SubSeq(content, m.start + Len(MarkerStart), m.end - 1),
                         MarkerEnd >>
                 e == Expand(Template(new_section), 1, g, <<>>)
             IN  IF ~e.ok THEN [err |-> ReError, text |-> <<>>]
                 ELSE [err |-> NoErr,
                       text |-> SubSeq(content, 1, m.start - 1) \o e.text
                                \o SubSeq(content, stop, Len(content))]

-----------------------------------------------------------------------------
(* ReadmeTableManager: rendering *)

RECURSIVE Join(_, _)
\* sep.join(texts)
Join(texts, sep) ==
    IF texts = <<>> THEN <<>>
    ELSE IF Len(texts) = 1 THEN texts[1]
    ELSE texts[1] \o sep \o Join(Tail(texts), sep)

RECURSIVE EscapePipe(_)
\* escape_pipe(text): text.replace("|", "\\|")
EscapePipe(text) ==
    IF text = <<>> THEN <<>>
    ELSE (IF Head(text) = "|" THEN <<"\\", "|">> ELSE <<Head(text)>>)
         \o EscapePipe(Tail(text))

Home == <<"h","o","m","e">>

IsHomeAnyLabel(u) == TRUE

\* is_home: the link's name is "home"
IsHome(u) == u.name = Home

\* the links the loop over urls does not skip: those with a non-empty url
UsableUrls(urls) == SelectSeq(urls, LAMBDA u : u.url # <<>>)

\* home_url after the loop over urls: the url of the last usable link named
\* "home", <<>> (None) if there is none
HomeUrl(urls) ==
    LET homes == SelectSeq(UsableUrls(urls), IsHome)
    IN  IF homes = <<>> THEN <<>> ELSE homes[Len(homes)].url

\* other_urls after the loop over urls
OtherUrls(urls) == SelectSeq(UsableUrls(urls), LAMBDA u : ~IsHome(u))

\* the first record for which "if not home_url" raises, 0 if none
FirstWithoutHomeUrl(tools) ==
    LET bad == {i \in 1..Len(tools) : HomeUrl(tools[i].urls) = <<>>}
    IN  IF bad = {} THEN 0 ELSE SetMin(bad)

\* ValueError(f"Tool '{name}' does not have a 'home' URL.")
MissingHome(name) == [kind |-> "missing_home", name |-> name]

\* f"[{name}]({url})"
MdLink(name, url) == <<"[">> \o name \o <<"]", "(">> \o url \o <<")">>

\* format_url(u) of render_markdown_table
FormatUrl(u) == IF u.name # <<>> THEN MdLink(u.name, u.url) ELSE u.url

\* [format_url(u) for u in other_urls]
FormatUrls(others) == [i \in 1..Len(others) |-> FormatUrl(others[i])]

\* [escape_pipe(str(cell)) for cell in row]
EscapeCells(row) == [i \in 1..Len(row) |-> EscapePipe(row[i])]

CommaSpace == <<",", " ">>
Newline == <<"\n">>

\* "| " + " | ".join(cells) + " |"
TableLine(cells) == <<"|", " ">> \o Join(cells, <<" ", "|", " ">>) \o <<" ", "|">>

TableHeaders(render_tags, render_notes) ==
    << <<"N","a","m","e">>, <<"D","e","s","c","r","i","p","t","i","o","n">>,
       <<"U","R","L","s">> >>
    \o (IF render_tags THEN << <<"T","a","g","s">> >> ELSE <<>>)
    \o (IF render_notes THEN << <<"N","o","t","e","s">> >> ELSE <<>>)

\* the row of one record
TableRow(tool, render_tags, render_notes) ==
    << MdLink(tool.name, HomeUrl(tool.urls)),
       tool.description,
       Join(FormatUrls(OtherUrls(tool.urls)), CommaSpace) >>
    \o (IF render_tags THEN <<Join(tool.tags, CommaSpace)>> ELSE <<>>)
    \o (IF render_notes THEN <<Join(tool.notes, CommaSpace)>> ELSE <<>>)

\* render_markdown_table(tools, render_tags, render_notes): the exception
\* raised and the text returned
RenderMarkdownTable(tools, render_tags, render_notes) ==
    LET bad == FirstWithoutHomeUrl(tools)
        headers == TableHeaders(render_tags, render_notes)
        row_lines ==
            [i \in 1..Len(tools) |->
                TableLine(EscapeCells(TableRow(tools[i], render_tags,
                                               render_notes)))]
    IN  IF bad # 0 THEN [err |-> MissingHome(tools[bad].name), text |-> <<>>]
        ELSE [err |-> NoErr,
              text |-> Join(<< TableLine(headers),
                               TableLine([i \in 1..Len(headers) |->
                                            <<"-", "-", "-">>]) >>
                            \o row_lines,
                            Newline)]

\* the entries one record appends to lines in render_markdown_list
ListLines(tool, render_tags, render_notes) ==
    LET others == OtherUrls(tool.urls)
        url_lines ==
            [i \in 1..Len(others) |->
                IF others[i].name # <<>>
                THEN <<"-", " ">> \o MdLink(others[i].name, others[i].url)
                ELSE <<"-", " ">> \o others[i].url]
    IN  << <<"#", "#", "#", " ">> \o MdLink(tool.name, HomeUrl(tool.urls)) >>
        \o (IF tool.description # <<>>
            THEN <<tool.description \o Newline>> ELSE <<>>)
        \o (IF others # <<>>
            THEN << <<"*","*","U","R","L","s",":","*","*","\n">>
                    \o Join(url_lines, Newline) \o Newline >>
            ELSE <<>>)
        \o (IF render_tags /\ tool.tags # <<>>
            THEN << <<"*","*","T","a","g","s",":","*","*"," ">>
                    \o Join(tool.tags, CommaSpace) \o Newline >>
            ELSE <<>>)
        \o (IF render_notes /\ tool.notes # <<>>
            THEN << <<"*","*","N","o","t","e","s",":","*","*"," ">>
                    \o Join(tool.notes, CommaSpace) \o Newline >>
            ELSE <<>>)

RECURSIVE Flatten(_)
Flatten(seqs) == IF seqs = <<>> THEN <<>> ELSE Head(seqs) \o Flatten(Tail(seqs))

\* render_markdown_list(tools, render_tags, render_notes): the exception
\* raised and the text returned
RenderMarkdownList(tools, render_tags, render_notes) ==
    LET bad == FirstWithoutHomeUrl(tools)
        lines ==
            Flatten([i \in 1..Len(tools) |->
                        ListLines(tools[i], render_tags, render_notes)])
    IN  IF bad # 0 THEN [err |-> MissingHome(tools[bad].name), text |-> <<>>]
        ELSE [err |-> NoErr,
              text |-> Join(lines, Newline)]

-----------------------------------------------------------------------------
(* The documents and records of the README model *)

DocPieces == {MarkerStart, MarkerEnd, <<"x", "\n">>}

\* the documents made of at most n pieces
DocsUpTo(n) == {Flatten(ps) : ps \in SeqsUpTo(DocPieces, n)}

SectionChars == {"\\", "1", "n", "|", "x"}

ReadmeTools ==
    { [name |-> <<"a">>, description |-> <<"|", "\\", "n">>,
       urls |-> <<HomeLink, DocsLink>>, tags |-> <<Cli>>, notes |-> <<Note>>],
      [name |-> <<"b">>, description |-> <<>>,
       urls |-> <<DocsLink>>, tags |-> <<>>, notes |-> <<>>],
      [name |-> <<"c">>, description |-> <<"x">>,
       urls |-> <<[name |-> Home, url |-> <<>>]>>,
       tags |-> <<Http, Cli>>, notes |-> <<>>] }

-----------------------------------------------------------------------------
(* ReadmeTableManager: the operations *)

\* replace_marker_section(content, new_section) called on its own, with the
\* arguments of the behaviour
ReplaceSection ==
    /\ LET r == ReplaceMarkerSection(arg.content, arg.new_section)
       IN  /\ err' = r.err
           /\ out' = r.text
    /\ op' = "replace_marker_section"
    /\ wrote' = FALSE
    /\ UNCHANGED <<file, loaded, data, original, aliased, opened, scope,
                   asLoaded, readme, arg, prev>>

\* update_readme_with_table(tools, as_table, render_tags, render_notes) with
\* the arguments of the behaviour: read_readme, render,
\* replace_marker_section, write_readme; any exception is logged and raised
\* again
UpdateReadmeWithTable ==
    LET content == readme
        new_section ==
            IF arg.as_table
            THEN RenderMarkdownTable(arg.tools, arg.render_tags,
                                     arg.render_notes)
            ELSE RenderMarkdownList(arg.tools, arg.render_tags,
                                    arg.render_notes)
        updated == ReplaceMarkerSection(content, new_section.text)
        e == IF new_section.err # NoErr THEN new_section.err ELSE updated.err
    IN  /\ readme' = IF e = NoErr THEN updated.text ELSE readme
        /\ wrote' = (e = NoErr)
        /\ err' = e
        /\ op' = "update_readme_with_table"
        /\ out' = <<>>
        /\ UNCHANGED <<file, loaded, data, original, aliased, opened,
                       scope, asLoaded, prev, arg>>

\* no catalog manager in use
NoStore ==
    /\ file = <<>>
    /\ loaded = FALSE
    /\ data = <<>>
    /\ original = <<>>
    /\ aliased = FALSE
    /\ opened = FALSE
    /\ scope = FALSE
    /\ asLoaded = <<>>
    /\ prev = <<>>

InitProject ==
    /\ NoStore
    /\ readme = <<>>
    /\ op = "init"
    /\ arg \in [content : DocsUpTo(MaxDocPieces),
                new_section : SeqsUpTo(SectionChars, MaxSectionLen)]
    /\ err = NoErr
    /\ wrote = FALSE
    /\ out = <<>>

NextProject == ReplaceSection

SpecProject == InitProject /\ [][NextProject]_vars

InitReadme ==
    /\ NoStore
    /\ readme \in DocsUpTo(MaxReadmePieces)
    /\ op = "init"
    /\ arg \in [tools : SeqsUpTo(ReadmeTools, MaxReadmeTools),
                as_table : BOOLEAN, render_tags : BOOLEAN,
                render_notes : BOOLEAN]
    /\ err = NoErr
    /\ wrote = FALSE
    /\ out = <<>>

NextReadme == UpdateReadmeWithTable

SpecReadme == InitReadme /\ [][NextReadme]_vars

-----------------------------------------------------------------------------
(* migrations/001_upgrade_schema.py: migrate_tool *)

Linux == <<"l","i","n","u","x">>
Mac == <<"m","a","c">>
Windows == <<"w","i","n","d","o","w","s">>
Android == <<"a","n","d","r","o","i","d">>
Ios == <<"i","o","s">>

PLATFORM_KEYWORDS == {Linux, Mac, Windows, Android, Ios}

\* the default of line 26, in the order the code writes it
AllPlatforms == <<Linux, Mac, Windows, Android, Ios>>

IsPlatformCaseSensitive(t) == t \in PLATFORM_KEYWORDS

\* t.lower() in PLATFORM_KEYWORDS
IsPlatform(t) == Lower(t) \in PLATFORM_KEYWORDS

\* the tags a record given to migrate_tool() may carry: platform names in
\* lower and in mixed case, a name that only starts like a platform, others
MigrateTags ==
    { Linux, <<"W","i","n","d","o","w","s">>, <<"I","O","S">>,
      <<"m","a","c","o","s">>, Cli }

\* obj.get(key, default)
Get(obj, key, default) == IF key \in DOMAIN obj THEN obj[key] ELSE default

\* new_obj with new_obj[key] = value
With(obj, key, value) ==
    [k \in DOMAIN obj \cup {key} |-> IF k = key THEN value ELSE obj[k]]

Uncategorized == <<"u","n","c","a","t","e","g","o","r","i","z","e","d">>

\* migrate_tool(obj): every record it can return, the two comprehensions
\* iterating one set in the same order (whichever order that is)
MigrateTool(obj) ==
    LET new_obj == With(obj, "category", Get(obj, "category", Uncategorized))
        tags == Range(Get(new_obj, "tags", <<>>))
    IN  { LET platforms == SelectSeq(order, IsPlatform)
              rest == SelectSeq(order, LAMBDA t : ~IsPlatform(t))
          IN  With(With(new_obj, "platforms",
                        IF platforms # <<>> THEN platforms ELSE AllPlatforms),
                   "tags", rest)
          : order \in Perms(tags) }

\* the records given to migrate_tool(): with and without the keys tags and
\* category
MigrateObjs ==
    LET base == [name |-> <<"x">>]
        withTags == {base} \cup {With(base, "tags", ts) :
                                    ts \in SeqsUpTo(MigrateTags, MaxTags)}
    IN  withTags \cup {With(o, "category", Cli) : o \in withTags}

\* migrate_tool(obj) applied to the record of the behaviour
Migrate ==
    /\ out' \in MigrateTool(arg.obj)
    /\ op' = "migrate_tool"
    /\ err' = NoErr
    /\ wrote' = FALSE
    /\ UNCHANGED <<file, loaded, data, original, aliased, opened, scope,
                   asLoaded, readme, arg, prev>>

InitMigrate ==
    /\ NoStore
    /\ readme = <<>>
    /\ op = "init"
    /\ arg \in [obj : MigrateObjs]
    /\ err = NoErr
    /\ wrote = FALSE
    /\ out = <<>>

NextMigrate == Migrate

SpecMigrate == InitMigrate /\ [][NextMigrate]_vars

-----------------------------------------------------------------------------
(* Reconciliation on its own: dedupe() applied, and applied again, to a    *)
(* catalog just read                                                       *)

InitDedupe ==
    /\ file \in SeqsUpTo(Tools, MaxRecs)
    /\ loaded = TRUE
    /\ data = file
    /\ original = file
    /\ aliased = FALSE
    /\ opened = TRUE
    /\ scope = FALSE
    /\ asLoaded = <<file>>
    /\ readme = <<>>
    /\ op = "read"
    /\ arg = NoArg
    /\ prev = <<>>
    /\ err = NoErr
    /\ wrote = FALSE
    /\ out = <<>>

NextDedupe == Dedupe

SpecDedupe == InitDedupe /\ [][NextDedupe]_vars

-----------------------------------------------------------------------------
(* Claims about dedupe() *)

Keys(records) == [i \in 1..Len(records) |-> Lower(records[i].name)]

\* the positions of records whose lower-cased name is k
Group(records, k) == {i \in 1..Len(records) : Lower(records[i].name) = k}

\* the lower-cased names of records, each once, in order of first occurrence
FirstSeenKeys(records) ==
    LET first == {i \in 1..Len(records) :
                    \A j \in 1..(i - 1) :
                        Lower(records[j].name) # Lower(records[i].name)}
        nth(k) == CHOOSE i \in first : Cardinality({j \in first : j <= i}) = k
    IN  [k \in 1..Cardinality(first) |-> Lower(records[nth(k)].name)]

\* C1: dedupe() returns exactly one record per distinct lower-cased name of
\* its input, in the order in which each lower-cased name first occurs.
C1_OnePerKeyInFirstSeenOrder ==
    op = "dedupe" => Keys(data) = FirstSeenKeys(prev)

\* three records, the first and the last sharing a lower-cased name under
\* different spellings, were merged into two
C1_Witness ==
    /\ op = "dedupe"
    /\ Len(prev) = 3
    /\ Len(data) = 2
    /\ Lower(prev[1].name) = Lower(prev[3].name)
    /\ prev[1].name # prev[3].name
    /\ Lower(prev[2].name) # Lower(prev[1].name)

\* records with the records at positions i and j exchanged
Swapped(records, i, j) ==
    [k \in 1..Len(records) |->
        records[IF k = i THEN j ELSE IF k = j THEN i ELSE k]]

\* the pairs of positions of records that hold two records of one group
GroupPairs(records) ==
    {ij \in (1..Len(records)) \X (1..Len(records)) :
        /\ ij[1] < ij[2]
        /\ Lower(records[ij[1]].name) = Lower(records[ij[2]].name)}

\* the tags, notes and links of each record of d, as sets, by lower-cased name
SetView(d) ==
    {<<Lower(d[i].name), Range(d[i].tags), Range(d[i].notes),
       Range(d[i].urls)>> : i \in 1..Len(d)}

\* the set views of the results dedupe() can leave for records
SetViews(records) == {SetView(d) : d \in DedupeOutcomes(records)}

\* C2: for every group of input records sharing a lower-cased name, the
\* merged record's tags, notes and links (as sets, a link being its full
\* label+url pair) are the unions over the group (what dedupe() left, first
\* conjunct), and they are the same for every permutation of the group's
\* records (second conjunct: every result of dedupe() on a catalog just read
\* has the sets of every result on the catalog with two records of a group
\* exchanged; a permutation of a group is a sequence of such exchanges, and
\* each exchanged catalog is a catalog just read as well).
C2_UnionOfGroupAnyOrder ==
    /\ op = "dedupe" =>
        \A i \in 1..Len(data) :
            LET g == Group(prev, Lower(data[i].name))
            IN  /\ Range(data[i].tags) = UNION {Range(prev[j].tags) : j \in g}
                /\ Range(data[i].notes) = UNION {Range(prev[j].notes) : j \in g}
                /\ Range(data[i].urls) = UNION {Range(prev[j].urls) : j \in g}
    /\ op = "read" =>
        LET views == SetViews(data)
        IN  /\ Cardinality(views) = 1
            /\ \A ij \in GroupPairs(data) :
                    SetViews(Swapped(data, ij[1], ij[2])) = views

\* three records of one group with pairwise different tags, notes or links
\* were merged into one
C2_Witness ==
    /\ op = "dedupe"
    /\ Len(prev) = 3
    /\ Len(data) = 1
    /\ Cardinality({prev[i].tags : i \in 1..3}) = 3
    /\ Cardinality(Range(data[1].tags)) = 2
    /\ Cardinality(Range(data[1].urls)) = 2
    /\ prev[1].notes = <<>>
    /\ Cardinality(Range(data[1].notes)) = 1

\* C3: reconciliation is idempotent: dedupe() applied to a result of
\* dedupe() returns that result, same records, same fields, same order.
C3_Idempotent ==
    op = "dedupe" => DedupeOutcomes(data) = {data}

\* a result of two records, one of them merged from two input records
C3_Witness ==
    /\ op = "dedupe"
    /\ Len(prev) = 3
    /\ Len(data) = 2
    /\ data[1] # data[2]
    /\ \E i \in 1..2 : Cardinality(Group(prev, Lower(data[i].name))) = 2

\* the name C4 describes for the group at positions g (in input order): on
\* equal all-lower status the incoming name is taken exactly when the
\* incoming description is strictly longer than the description the
\* accumulator holds when the incoming record arrives
RECURSIVE ClaimedMerge(_, _, _)
ClaimedMerge(records, acc, rest) ==
    IF rest = {} THEN acc
    ELSE LET i == CHOOSE x \in rest : \A y \in rest : x <= y
             obj == records[i]
             name == IF IsLower(acc.name) = IsLower(obj.name)
                     THEN IF Len(obj.description) > Len(acc.description)
                          THEN obj.name ELSE acc.name
                     ELSE IF IsLower(acc.name) THEN obj.name ELSE acc.name
             desc == IF Len(acc.description) >= Len(obj.description)
                     THEN acc.description ELSE obj.description
         IN  ClaimedMerge(records, [name |-> name, description |-> desc],
                          rest \ {i})

ClaimedName(records, k) ==
    LET g == Group(records, k)
        i0 == CHOOSE x \in g : \A y \in g : x <= y
    IN  ClaimedMerge(records,
                     [name |-> records[i0].name,
                      description |-> records[i0].description],
                     g \ {i0}).name

\* C4: in a merge of dedupe(), when the accumulator's name and the incoming
\* name have the same all-lower-case status, the merged record takes the
\* incoming name exactly when the incoming description is strictly longer
\* than the description the accumulator held when the record arrived.
C4_NameFollowsLongerDescription ==
    op = "dedupe" =>
        \A i \in 1..Len(data) :
            data[i].name = ClaimedName(prev, Lower(data[i].name))

-----------------------------------------------------------------------------
(* Claims about the catalog store *)

\* C9: sort() fails exactly when the key is not "name" (unsupported key) or
\* the order token, compared case-insensitively, is neither "asc" nor "desc"
\* (invalid order); when it fails, the catalog records are in the order and
\* with the content sort() started from (those in memory, or those of the
\* file when sort() had to load them first).
C9_SortFailsExactlyOnBadArguments ==
    op = "sort" =>
        LET badKey == arg.sort_key # "name"
            badOrder == Lower(arg.sort_order) \notin
                            { <<"a","s","c">>, <<"d","e","s","c">> }
        IN  /\ (err # NoErr) <=> (badKey \/ badOrder)
            /\ badKey => err.kind = "unsupported_key"
            /\ (~badKey /\ badOrder) => err.kind = "invalid_order"
            /\ err # NoErr => data = prev /\ ~wrote

\* sort() refused an order token for records a sort would have reordered
C9_Witness ==
    /\ op = "sort"
    /\ err.kind = "invalid_order"
    /\ Sorted(prev, FALSE) # prev
    /\ data = prev

PersistOps == {"save", "write", "close", "exit"}

-----------------------------------------------------------------------------
(* Claims about the README projection *)

\* the text has a start marker and, after it, an end marker
MarkersPresent(text) ==
    \E i \in Occurrences(text, MarkerStart), j \in Occurrences(text, MarkerEnd) :
        j >= i + Len(MarkerStart)

\* text begins with head and ends with tail, the two not overlapping
Frames(text, head, tail) ==
    /\ Len(text) >= Len(head) + Len(tail)
    /\ SubSeq(text, 1, Len(head)) = head
    /\ SubSeq(text, Len(text) - Len(tail) + 1, Len(text)) = tail

\* C5 as claimed: replace_marker_section replaces the span from the first
\* occurrence of the start marker to the first occurrence of the end marker
\* after it; what precedes the start marker and everything from the first end
\* marker on, later end markers included, is kept unchanged.
C5_ReplacesUpToFirstEndMarker ==
    (op = "replace_marker_section" /\ err = NoErr) =>
        LET content == arg.content
            s == SetMin(Occurrences(content, MarkerStart))
            e == SetMin({j \in Occurrences(content, MarkerEnd) :
                            j >= s + Len(MarkerStart)})
        IN  Frames(out, SubSeq(content, 1, s - 1) \o MarkerStart,
                        SubSeq(content, e, Len(content)))

\* C6 as claimed: for a document with a start marker followed by an end
\* marker and any section text, the result is prefix + start marker + blank
\* line + the section verbatim + blank line + end marker + suffix, prefix and
\* suffix being the input outside the marker span (taken here as the span the
\* code replaces), and replacing again with the same section returns the same
\* document.
C6_VerbatimSectionAndFixedPoint ==
    (op = "replace_marker_section" /\ MarkersPresent(arg.content)) =>
        LET content == arg.content
            m == Search(content)
            prefix == SubSeq(content, 1, m.start - 1)
            suffix == SubSeq(content, m.end + Len(MarkerEnd), Len(content))
        IN  /\ err = NoErr
            /\ out = prefix \o MarkerStart \o <<"\n", "\n">> \o arg.new_section
                     \o <<"\n", "\n">> \o MarkerEnd \o suffix
            /\ ReplaceMarkerSection(out, arg.new_section)
                   = [err |-> NoErr, text |-> out]

\* the record has no link labelled "home"
NoHomeLabel(tool) ==
    \A k \in 1..Len(tool.urls) : tool.urls[k].name # Home

\* the record has no link labelled "home" with a non-empty URL
NoHomeUrl(tool) ==
    \A k \in 1..Len(tool.urls) :
        tool.urls[k].name # Home \/ tool.urls[k].url = <<>>

\* C7 as claimed: if the README has no start marker, no end marker, or no end
\* marker after the start marker, update_readme_with_table fails with the
\* markers-not-found error and the README is not written.
C7_NoMarkersIsMarkersNotFound ==
    [][ (op' = "update_readme_with_table" /\ ~MarkersPresent(readme))
            => /\ err' = MarkersNotFound
               /\ ~wrote'
               /\ readme' = readme ]_vars

\* C7, amended: if the README has no start marker, no end marker, or no end
\* marker after the start marker, update_readme_with_table fails and the
\* README is not written: it fails with the markers-not-found error when
\* rendering the records succeeds, and with the rendering's missing-home
\* error when some record has no link labelled "home" with a non-empty URL.
C7_NoMarkersFailsWithoutWrite ==
    [][ (op' = "update_readme_with_table" /\ ~MarkersPresent(readme))
            => /\ IF \E i \in 1..Len(arg.tools) : NoHomeUrl(arg.tools[i])
                  THEN err'.kind = "missing_home"
                  ELSE err' = MarkersNotFound
               /\ ~wrote'
               /\ readme' = readme ]_vars

\* an update of a README that has both markers, the end marker first, with
\* records that render: markers not found, nothing written
C7_Witness ==
    /\ op = "update_readme_with_table"
    /\ err = MarkersNotFound
    /\ ~wrote
    /\ Occurrences(readme, MarkerStart) # {}
    /\ Occurrences(readme, MarkerEnd) # {}
    /\ ~MarkersPresent(readme)
    /\ arg.tools # <<>>

\* C8 as claimed: rendering (table or list form) a record sequence in which
\* some record has no link labelled "home" fails with an error naming the
\* first such record, and update_readme_with_table performs no write.
C8_NamesFirstWithoutHomeLabel ==
    [][ (op' = "update_readme_with_table"
         /\ \E i \in 1..Len(arg.tools) : NoHomeLabel(arg.tools[i]))
            => /\ err' = MissingHome(
                        arg.tools[SetMin({i \in 1..Len(arg.tools) :
                                            NoHomeLabel(arg.tools[i])})].name)
               /\ ~wrote'
               /\ readme' = readme ]_vars

\* C8, amended: rendering (table or list form) a record sequence in which
\* some record has no link labelled "home" with a non-empty URL fails with an
\* error naming the first such record, and update_readme_with_table performs
\* no write, whatever records precede or follow that record.
C8_NamesFirstWithoutHomeUrl ==
    [][ (op' = "update_readme_with_table"
         /\ \E i \in 1..Len(arg.tools) : NoHomeUrl(arg.tools[i]))
            => /\ err' = MissingHome(
                        arg.tools[SetMin({i \in 1..Len(arg.tools) :
                                            NoHomeUrl(arg.tools[i])})].name)
               /\ ~wrote'
               /\ readme' = readme ]_vars

\* an update, in list form, of a README with its markers in place, the second
\* record having links but none labelled "home": the error names it and
\* nothing is written
C8_Witness ==
    /\ op = "update_readme_with_table"
    /\ ~arg.as_table
    /\ Len(arg.tools) = 2
    /\ ~NoHomeUrl(arg.tools[1])
    /\ NoHomeLabel(arg.tools[2])
    /\ arg.tools[2].urls # <<>>
    /\ MarkersPresent(readme)
    /\ err = MissingHome(arg.tools[2].name)
    /\ ~wrote

-----------------------------------------------------------------------------
(* Claims about the schema upgrade *)

\* C11: migrate_tool partitions a record's tags: every tag whose lower-cased
\* form is one of linux, mac, windows, android, ios is in platforms and not
\* in tags, every other tag is in tags and not in platforms, and when no tag
\* is platform-like platforms is the list of all five platforms (so it is
\* never empty).
C11_TagsPartitioned ==
    op = "migrate_tool" =>
        LET given == Range(Get(arg.obj, "tags", <<>>))
            five == { <<"l","i","n","u","x">>, <<"m","a","c">>,
                      <<"w","i","n","d","o","w","s">>,
                      <<"a","n","d","r","o","i","d">>, <<"i","o","s">> }
            like == {t \in given : Lower(t) \in five}
        IN  /\ \A t \in like :
                t \in Range(out.platforms) /\ t \notin Range(out.tags)
            /\ \A t \in given \ like :
                t \in Range(out.tags) /\ t \notin Range(out.platforms)
            /\ like = {} =>
                out.platforms = << <<"l","i","n","u","x">>, <<"m","a","c">>,
                                   <<"w","i","n","d","o","w","s">>,
                                   <<"a","n","d","r","o","i","d">>,
                                   <<"i","o","s">> >>
            /\ out.platforms # <<>>

\* a record with a platform tag in mixed case, a platform tag in lower case
\* and another tag was upgraded: two platforms, one tag left
C11_Witness ==
    /\ op = "migrate_tool"
    /\ "tags" \in DOMAIN arg.obj
    /\ Len(arg.obj.tags) = 3
    /\ Len(out.platforms) = 2
    /\ \E t \in Range(out.platforms) : Lower(t) # t
    /\ Len(out.tags) = 1

-----------------------------------------------------------------------------
(* Claims about the scoped use of the catalog store *)

\* C12: when the scope (enter ... exit) ends with an exception, the exit
\* writes nothing to the catalog file and the in-memory data afterwards is
\* what the file holds, that is the data as loaded or as last persisted
\* within the scope, whatever sort() and dedupe() did since; when it ends
\* normally, the file afterwards holds the in-memory data, which the exit
\* leaves as it was.
C12_ExitDiscardsOrPersists ==
    [][ op' = "exit" =>
            IF arg'.exc
            THEN /\ ~wrote'
                 /\ file' = file
                 /\ data' = file
            ELSE /\ data' = data
                 /\ file' = data ]_vars

\* a scope that raised after its data had been changed: the change is gone
C12_Witness ==
    /\ op = "exit"
    /\ arg.exc
    /\ prev # data
    /\ data = file
    /\ ~wrote

\* C13 as claimed: after any sequence of store operations, whenever save()
\* or write() returns with data loaded, or close() returns having found the
\* file open, the catalog file holds the in-memory data.  (A close() that
\* finds the file closed persists nothing whatever the snapshot is, and is
\* left out.)
C13_FileHoldsDataAfterPersist ==
    [][ ( \/ op' = "save" /\ loaded
          \/ op' = "write"
          \/ op' = "close" /\ opened ) => file' = data' ]_vars

====
